---- MODULE Spec2Model ----
(***************************************************************************)
(* Agentic Interviewer (src/app.py): the upload flow with its session      *)
(* cache and two-phase AI chain, the question card renderer, and the CSV   *)
(* question parser.                                                        *)
(*                                                                         *)
(* Text is a sequence of one-character strings, so that strip(), lower(),  *)
(* split() and the CSV reader are computed character by character.         *)
(***************************************************************************)
EXTENDS Integers, Sequences, FiniteSets, TLC

VARIABLES
    uploaded_file,   \* st.file_uploader's value: [name, doc], or NoFile
    api_key,         \* the credential of the sidebar ("" when none)
    clicked,         \* st.button("Regenerate") returns True in this script run
    session_state,   \* st.session_state: file name -> {"context", "questions"}
    pc,              \* position of the script run ("idle": waiting for the user)
    resume_text,     \* local of the upload flow (line 393)
    context_data,    \* local of run_agentic_chain (line 308)
    questions,       \* local of run_agentic_chain (line 321)
    ret,             \* the tuple run_agentic_chain returned (line 397)
    view,            \* what the results view rendered in this script run
    next_oid,        \* identity of the next result object the flow creates
    run,             \* history of the current script run
    last,            \* history: per file name, the previous upload-flow invocation
    loop_questions,  \* SpecView: the question list of the results view
    loop_idx,        \* SpecView: idx of the question loop (line 434)
    total_score,     \* SpecView: the running total (line 433)
    cards,           \* SpecView: the cards display_question rendered so far
    loop_pc,         \* SpecView: "loop", "summary" (line 438 shown) or "fault"
    raw_text,        \* SpecParse: the argument of parse_questions_from_csv
    clean_text,      \* SpecParse: local (line 112)
    data_lines,      \* SpecParse: local (lines 115-119)
    parsed,          \* SpecParse: what the call returned, warned or raised
    parse_pc         \* SpecParse: "clean", "filter", "read" or "done"

vars == <<uploaded_file, api_key, clicked, session_state, pc, resume_text,
          context_data, questions, ret, view, next_oid, run, last,
          loop_questions, loop_idx, total_score, cards, loop_pc,
          raw_text, clean_text, data_lines, parsed, parse_pc>>

flow_vars == <<uploaded_file, api_key, clicked, session_state, pc, resume_text,
               context_data, questions, ret, view, next_oid, run, last>>

loop_vars == <<loop_questions, loop_idx, total_score, cards, loop_pc>>

csv_vars == <<raw_text, clean_text, data_lines, parsed, parse_pc>>

----
\* Bounds of the model.

\* Result objects one session may create.
MaxObjects == 2

\* Longest question list the results view is checked on (SpecView).
MaxListLen == 2

\* Most lines of the text handed to the parser (SpecParse).
MaxLines == 3

----
\* Text helpers.

IsSpace(c) == c \in {" ", "\t", "\r", "\n"}

RECURSIVE LStrip(_)
LStrip(s) == IF s # <<>> /\ IsSpace(Head(s)) THEN LStrip(Tail(s)) ELSE s

RECURSIVE RStrip(_)
RStrip(s) ==
    IF s # <<>> /\ IsSpace(s[Len(s)]) THEN RStrip(SubSeq(s, 1, Len(s) - 1)) ELSE s

\* str.strip()
Strip(s) == RStrip(LStrip(s))

LowerChar(c) ==
    CASE c = "E" -> "e" [] c = "A" -> "a" [] c = "S" -> "s" [] c = "Y" -> "y"
      [] c = "H" -> "h" [] c = "R" -> "r" [] c = "D" -> "d" [] c = "M" -> "m"
      [] c = "I" -> "i" [] c = "U" -> "u" [] c = "N" -> "n" [] c = "K" -> "k"
      [] c = "O" -> "o" [] c = "W" -> "w" [] c = "Z" -> "z"
      [] OTHER -> c

\* str.lower()
Lower(s) == [i \in 1..Len(s) |-> LowerChar(s[i])]

RECURSIVE Concat(_)
\* "".join(parts)
Concat(parts) == IF parts = <<>> THEN <<>> ELSE Head(parts) \o Concat(Tail(parts))

RECURSIVE SeqsUpTo(_, _)
\* The sequences over S of length at most n.
SeqsUpTo(S, n) ==
    IF n = 0 THEN {<<>>}
    ELSE LET shorter == SeqsUpTo(S, n - 1)
         IN shorter \cup {Append(q, x) : q \in shorter, x \in S}

----
\* Configuration constants.

MAX_QUESTIONS == 10

\* DIFFICULTY_COLORS.get(d, "gray")
DIFFICULTY_COLORS(d) ==
    CASE d = <<"h", "a", "r", "d">> -> "red"
      [] d = <<"m", "e", "d", "i", "u", "m">> -> "orange"
      [] d = <<"e", "a", "s", "y">> -> "green"
      [] OTHER -> "gray"

----
\* Uploaded documents.  A document is what PdfReader makes of the bytes: it
\* opens or raises, and each page's extract_text() is a text or None.

NoText == <<"None">>   \* page.extract_text() returned None

TextPdf == [ok |-> TRUE, pages |-> << <<" ", "c", "v">>, NoText, <<"x", "\n">> >>]
ScanPdf == [ok |-> TRUE, pages |-> << NoText, <<" ", "\n">> >>]
CorruptPdf == [ok |-> FALSE, pages |-> <<>>]

NoFile == [name |-> "", doc |-> CorruptPdf]

Names == {"a.pdf", "b.pdf"}

Files ==
    {[name |-> "a.pdf", doc |-> TextPdf], [name |-> "a.pdf", doc |-> ScanPdf],
     [name |-> "b.pdf", doc |-> TextPdf], [name |-> "b.pdf", doc |-> CorruptPdf]}

Keys == {"k1", "k2"}

\* extract_pdf_text: a function of the bytes (st.cache_data memoises it by them).
extract_pdf_text(doc) ==
    IF doc.ok
    THEN Strip(Concat([i \in 1..Len(doc.pages) |->
                          IF doc.pages[i] = NoText THEN <<>> ELSE doc.pages[i]]))
    ELSE <<>>

----
\* Python values the AI calls produce.

\* Phase 1: json.loads(response.text) as far as the code looks at it: its type
\* and its truth value.  "dict" is an object with the two fields, "list" a
\* non-empty array.
PyContexts == {"None", "dict", "empty_dict", "list"}

Truthy(v) == v \in {"dict", "list"}

IsDict(v) == v \in {"dict", "empty_dict"}

\* What model.generate_content and json.loads do in phase 1.
P1Responses == {"raise", "badjson", "null", "object", "empty_object", "array"}

\* run_context_analysis (lines 214-225): the parsed value, or None on any fault.
run_context_analysis(resp) ==
    CASE resp = "raise" -> "None"
      [] resp = "badjson" -> "None"
      [] resp = "null" -> "None"
      [] resp = "object" -> "dict"
      [] resp = "empty_object" -> "empty_dict"
      [] resp = "array" -> "list"

\* A question record: a dict with some of the six keys, or something else.
Fields == {"id", "title", "question_text", "difficulty", "max_points",
           "scoring_criteria"}

Question(keys, pts, difficulty) ==
    [dict |-> TRUE, keys |-> keys, id |-> 7, title |-> "API Design",
     question_text |-> "Explain REST vs RPC", difficulty |-> difficulty,
     max_points |-> pts, scoring_criteria |-> "Looks for clarity"]

\* An element that is no dict (a number, a string, a character of a string).
NonDict == [Question({}, 0, <<>>) EXCEPT !.dict = FALSE]

\* The value of "questions": a list, null, a number or a string.  items is what
\* iterating over it yields.
QList(items) == [t |-> "list", items |-> items, num |-> 0]
QNone == [t |-> "none", items |-> <<>>, num |-> 0]
QInt(n) == [t |-> "int", items |-> <<>>, num |-> n]
QStr(n) == [t |-> "str", items |-> [i \in 1..n |-> NonDict], num |-> 0]

\* bool(questions)
QTruthy(q) == IF q.t = "int" THEN q.num # 0 ELSE Len(q.items) > 0

\* len(questions) is defined
HasLen(q) == q.t \in {"list", "str"}

Easy == <<"E", "a", "s", "y">>
Hard == <<"h", "a", "r", "d">>

\* The list the prompt asks for: MAX_QUESTIONS records adding up to 100.
FullPoints == <<5, 8, 12, 10, 7, 9, 6, 15, 14, 14>>
FullList == [i \in 1..MAX_QUESTIONS |->
                [Question(Fields, FullPoints[i], Easy) EXCEPT !.id = i]]

\* A list shorter than MAX_QUESTIONS, one record without max_points.
ShortList == <<Question(Fields, 12, Hard), Question(Fields \ {"max_points"}, 0, Easy)>>

QVals == {QNone, QInt(7), QStr(1), QList(<<>>), QList(<<NonDict>>),
          QList(ShortList), QList(FullList)}

\* What model.generate_content and json.loads do in phase 2: the call raises,
\* the text is no JSON, the top level is an array, or it is an object with or
\* without a "questions" key.
P2Responses ==
    {[kind |-> k, has_questions |-> FALSE, questions |-> QNone] :
        k \in {"raise", "badjson", "array", "object"}}
    \cup {[kind |-> "object", has_questions |-> TRUE, questions |-> q] : q \in QVals}

\* run_question_generation (lines 268-287): data.get("questions", []) when the
\* response is an object; [] when the call raises, the text does not parse, or
\* data.get raises because the top level is no object.
run_question_generation(resp) ==
    IF resp.kind = "object"
    THEN IF resp.has_questions THEN resp.questions ELSE QList(<<>>)
    ELSE QList(<<>>)

----
\* The question card renderer.

Get(q, k, default) == IF k \in q.keys THEN q[k] ELSE default

Medium == <<"M", "e", "d", "i", "u", "m">>

display_question_no_default(q, index) ==
    IF ~q.dict
    THEN [fault |-> TRUE, pts |-> 0, title |-> "", text |-> "", diff |-> <<>>,
          criteria |-> "", q_id |-> 0, color |-> ""]
    ELSE [fault |-> FALSE,
          pts |-> Get(q, "max_points", 0),
          title |-> Get(q, "title", "Topic"),
          text |-> Get(q, "question_text", "..."),
          diff |-> Strip(Get(q, "difficulty", Medium)),
          criteria |-> Get(q, "scoring_criteria", "No criteria provided"),
          q_id |-> Get(q, "id", index + 1),
          color |-> "orange"]

\* display_question (lines 149-182): the card and the returned points; fault
\* when q has no get().
display_question(q, index) ==
    IF ~q.dict
    THEN [fault |-> TRUE, pts |-> 0, title |-> "", text |-> "", diff |-> <<>>,
          criteria |-> "", q_id |-> 0, color |-> ""]
    ELSE LET diff == Strip(Get(q, "difficulty", Medium))
             diff_lower == Lower(diff)
         IN [fault |-> FALSE,
             pts |-> Get(q, "max_points", 10),
             title |-> Get(q, "title", "Topic"),
             text |-> Get(q, "question_text", "..."),
             diff |-> diff,
             criteria |-> Get(q, "scoring_criteria", "No criteria provided"),
             q_id |-> Get(q, "id", index + 1),
             color |-> IF diff_lower = <<"e", "a", "s", "y">> THEN "green"
                       ELSE IF diff_lower = <<"h", "a", "r", "d">> THEN "red"
                       ELSE "orange"]

\* get_difficulty_color (lines 144-146)
get_difficulty_color(difficulty) == DIFFICULTY_COLORS(Lower(difficulty))

RECURSIVE RenderFrom(_, _, _)
\* The question loop (lines 433-435) from position idx (0-based) with the
\* running total_score: it stops at the first card that faults.
RenderFrom(items, idx, total) ==
    IF idx >= Len(items)
    THEN [fault |-> FALSE, total |-> total, cards |-> idx]
    ELSE LET card == display_question(items[idx + 1], idx)
         IN IF card.fault
            THEN [fault |-> TRUE, total |-> total, cards |-> idx]
            ELSE RenderFrom(items, idx + 1, total + card.pts)

----
\* The upload flow (lines 388-441), one script run at a time.

NoView == [shown |-> FALSE, button |-> FALSE, count |-> 0, cards |-> 0,
           summary |-> FALSE, total |-> 0, message |-> "none"]

NoRet == [set |-> FALSE, context |-> "None", questions |-> QList(<<>>)]

\* History of one script run: the invocation's file name and credential (name
\* is "" until the run enters the upload flow), calls made, what phase 1
\* returned, the object read at line 404, the object stored, the fault that
\* ended the run, and whether the run is the rerun of a regenerate action
\* (old: the object that action deleted).
NoRun == [name |-> "", key |-> "", hit |-> FALSE, retry |-> FALSE,
          extract_calls |-> 0, chain_runs |-> 0, p1 |-> "notrun",
          p2_calls |-> 0, used |-> 0, stored |-> 0, fault |-> "none",
          regen |-> FALSE, old |-> 0]

\* History of the previous invocation for a file name since the last
\* regenerate action on it.
NoLast == [valid |-> FALSE, key |-> "", hit |-> FALSE, extract_calls |-> 0,
           chain_runs |-> 0, stored |-> 0, entry |-> 0]

\* The previous invocation, as the next one finds it: entry is the object
\* under the file's key when the invocation ended (0: none).
Summary(r) ==
    [valid |-> TRUE, key |-> r.key, hit |-> r.hit,
     extract_calls |-> r.extract_calls,
     chain_runs |-> r.chain_runs, stored |-> r.stored,
     entry |-> IF r.name \in DOMAIN session_state
               THEN session_state[r.name].oid ELSE 0]

Remember == IF run.name = "" THEN last ELSE [last EXCEPT ![run.name] = Summary(run)]

\* A stored result with no context or with fewer than MAX_QUESTIONS questions.
FailedOrPartial(e) ==
    \/ ~Truthy(e.context)
    \/ Len(e.questions.items) < MAX_QUESTIONS

FlowInit ==
    /\ uploaded_file = NoFile
    /\ api_key = ""
    /\ clicked = FALSE
    /\ session_state = <<>>
    /\ pc = "idle"
    /\ resume_text = <<>>
    /\ context_data = "None"
    /\ questions = QList(<<>>)
    /\ ret = NoRet
    /\ view = NoView
    /\ next_oid = 1
    /\ run = NoRun
    /\ last = [n \in Names |-> NoLast]

\* The user picks a file (or none) and a credential (or none); any widget
\* change reruns the script from the top (lines 340-352, 381-385).  A run that
\* may store a result starts only while the session may create objects.
UserInput(f, k) ==
    /\ pc = "idle"
    /\ f.name \in DOMAIN session_state \/ next_oid <= MaxObjects
    /\ uploaded_file' = f
    /\ api_key' = k
    /\ clicked' = FALSE
    /\ pc' = "gate"
    /\ resume_text' = <<>>
    /\ context_data' = "None"
    /\ questions' = QList(<<>>)
    /\ ret' = NoRet
    /\ view' = NoView
    /\ run' = NoRun
    /\ last' = Remember
    /\ UNCHANGED <<session_state, next_oid>>

\* The user clicks the Regenerate button the last run rendered (line 427): the
\* script reruns with the button's value True.
ClickRegenerate ==
    /\ pc = "idle"
    /\ view.button
    /\ next_oid <= MaxObjects
    /\ clicked' = TRUE
    /\ pc' = "gate"
    /\ resume_text' = <<>>
    /\ context_data' = "None"
    /\ questions' = QList(<<>>)
    /\ ret' = NoRet
    /\ view' = NoView
    /\ run' = NoRun
    /\ last' = Remember
    /\ UNCHANGED <<uploaded_file, api_key, session_state, next_oid>>

GateIgnoresCache ==
    /\ pc = "gate"
    /\ IF uploaded_file # NoFile /\ api_key # ""
       THEN /\ run' = [run EXCEPT !.name = uploaded_file.name, !.key = api_key,
                                  !.hit = uploaded_file.name \in DOMAIN session_state]
            /\ pc' = "extract"
            /\ view' = view
       ELSE /\ run' = run
            /\ pc' = "idle"
            /\ view' = [view EXCEPT !.message =
                           IF uploaded_file # NoFile THEN "need_key" ELSE "welcome"]
    /\ UNCHANGED <<uploaded_file, api_key, clicked, session_state, resume_text,
                   context_data, questions, ret, next_oid, last>>

\* Lines 388-392 and 440-455: the gate on file and credential, and the cache
\* lookup under the file's name.
Gate ==
    /\ pc = "gate"
    /\ IF uploaded_file # NoFile /\ api_key # ""
       THEN LET file_key == uploaded_file.name
                hit == file_key \in DOMAIN session_state
            IN /\ run' = [run EXCEPT !.name = file_key, !.key = api_key,
                                     !.hit = hit,
                                     !.retry = /\ hit
                                               /\ FailedOrPartial(session_state[file_key])
                                               /\ last[file_key].valid
                                               /\ last[file_key].key # api_key
                                               /\ ~clicked]
               /\ pc' = IF hit THEN "view" ELSE "extract"
               /\ view' = view
       ELSE /\ run' = run
            /\ pc' = "idle"
            /\ view' = [view EXCEPT !.message =
                           IF uploaded_file # NoFile THEN "need_key" ELSE "welcome"]
    /\ UNCHANGED <<uploaded_file, api_key, clicked, session_state, resume_text,
                   context_data, questions, ret, next_oid, last>>

ExtractKeepsGoing ==
    /\ pc = "extract"
    /\ resume_text' = extract_pdf_text(uploaded_file.doc)
    /\ run' = [run EXCEPT !.extract_calls = @ + 1]
    /\ pc' = "init"
    /\ view' = view
    /\ UNCHANGED <<uploaded_file, api_key, clicked, session_state, context_data,
                   questions, ret, next_oid, last>>

\* Lines 393-401: extract the text; an empty text is reported and st.stop()
\* ends the run.
Extract ==
    /\ pc = "extract"
    /\ resume_text' = extract_pdf_text(uploaded_file.doc)
    /\ run' = [run EXCEPT !.extract_calls = @ + 1]
    /\ IF resume_text' # <<>>
       THEN /\ pc' = "init"
            /\ view' = view
       ELSE /\ pc' = "idle"
            /\ view' = [view EXCEPT !.message = "extract_failed"]
    /\ UNCHANGED <<uploaded_file, api_key, clicked, session_state, context_data,
                   questions, ret, next_oid, last>>

\* Lines 296-301: run_agentic_chain starts; genai.configure or the model's
\* construction may raise, and the chain then returns (None, []).
ChainInit(ok) ==
    /\ pc = "init"
    /\ run' = [run EXCEPT !.chain_runs = @ + 1]
    /\ IF ok
       THEN /\ pc' = "phase1"
            /\ ret' = ret
       ELSE /\ pc' = "store"
            /\ ret' = [set |-> TRUE, context |-> "None", questions |-> QList(<<>>)]
    /\ UNCHANGED <<uploaded_file, api_key, clicked, session_state, resume_text,
                   context_data, questions, view, next_oid, last>>

Phase1KeepsGoing(resp) ==
    /\ pc = "phase1"
    /\ context_data' = run_context_analysis(resp)
    /\ run' = [run EXCEPT !.p1 = context_data']
    /\ pc' = "phase2"
    /\ ret' = ret
    /\ UNCHANGED <<uploaded_file, api_key, clicked, session_state, resume_text,
                   questions, view, next_oid, last>>

\* Lines 304-314: phase 1; a falsy result ends the chain with (None, []).
Phase1(resp) ==
    /\ pc = "phase1"
    /\ context_data' = run_context_analysis(resp)
    /\ run' = [run EXCEPT !.p1 = context_data']
    /\ IF Truthy(context_data')
       THEN /\ pc' = "phase2"
            /\ ret' = ret
       ELSE /\ pc' = "store"
            /\ ret' = [set |-> TRUE, context |-> "None", questions |-> QList(<<>>)]
    /\ UNCHANGED <<uploaded_file, api_key, clicked, session_state, resume_text,
                   questions, view, next_oid, last>>

\* Lines 317-332 with run_question_generation (228-287).  The prompt is built
\* from context_data.get(...) before the try: a context that is no dict raises
\* there.  len(questions) in the status label raises for a truthy value with
\* no length.  Otherwise the chain returns (context_data, questions).
Phase2(resp) ==
    /\ pc = "phase2"
    /\ run' = [run EXCEPT !.p2_calls = @ + 1,
                          !.fault = IF ~IsDict(context_data)
                                       \/ (QTruthy(run_question_generation(resp))
                                           /\ ~HasLen(run_question_generation(resp)))
                                    THEN "chain" ELSE "none"]
    /\ IF ~IsDict(context_data)
       THEN /\ pc' = "idle"
            /\ questions' = questions
            /\ ret' = ret
       ELSE /\ questions' = run_question_generation(resp)
            /\ IF QTruthy(questions') /\ ~HasLen(questions')
               THEN /\ pc' = "idle"
                    /\ ret' = ret
               ELSE /\ pc' = "store"
                    /\ ret' = [set |-> TRUE, context |-> context_data,
                               questions |-> questions']
    /\ UNCHANGED <<uploaded_file, api_key, clicked, session_state, resume_text,
                   context_data, view, next_oid, last>>

\* Line 398: a new result object under the file's key.
Store ==
    /\ pc = "store"
    /\ LET file_key == uploaded_file.name
           object == [oid |-> next_oid, context |-> ret.context,
                      questions |-> ret.questions]
       IN session_state' = [k \in DOMAIN session_state \cup {file_key} |->
                               IF k = file_key THEN object ELSE session_state[k]]
    /\ next_oid' = next_oid + 1
    /\ run' = [run EXCEPT !.stored = next_oid]
    /\ pc' = "view"
    /\ UNCHANGED <<uploaded_file, api_key, clicked, resume_text, context_data,
                   questions, ret, view, last>>

\* Lines 404-438: the results view over the stored result.  Nothing is rendered
\* unless both context and questions are truthy.  A click on Regenerate deletes
\* the entry and st.rerun() restarts the script; otherwise the cards are
\* rendered and, when none faults, the summary line.
View ==
    /\ pc = "view"
    /\ LET file_key == uploaded_file.name
           cached == session_state[file_key]
           context == cached.context
           qs == cached.questions
           loop == RenderFrom(qs.items, 0, 0)
       IN IF ~(Truthy(context) /\ QTruthy(qs))
          THEN /\ run' = [run EXCEPT !.used = cached.oid]
               /\ view' = view
               /\ pc' = "idle"
               /\ UNCHANGED <<session_state, clicked, last>>
          ELSE IF ~IsDict(context) \/ ~HasLen(qs)
          THEN /\ run' = [run EXCEPT !.used = cached.oid, !.fault = "view"]
               /\ view' = [view EXCEPT !.shown = TRUE]
               /\ pc' = "idle"
               /\ UNCHANGED <<session_state, clicked, last>>
          ELSE IF clicked
          THEN /\ session_state' = [k \in DOMAIN session_state \ {file_key} |->
                                       session_state[k]]
               /\ run' = [NoRun EXCEPT !.regen = TRUE, !.old = cached.oid]
               /\ last' = [last EXCEPT ![file_key] = NoLast]
               /\ view' = NoView
               /\ clicked' = FALSE
               /\ pc' = "gate"
          ELSE /\ run' = [run EXCEPT !.used = cached.oid,
                                     !.fault = IF loop.fault THEN "view" ELSE "none"]
               /\ view' = [view EXCEPT !.shown = TRUE, !.button = TRUE,
                                       !.count = Len(qs.items),
                                       !.cards = loop.cards,
                                       !.summary = ~loop.fault,
                                       !.total = loop.total]
               /\ pc' = "idle"
               /\ UNCHANGED <<session_state, clicked, last>>
    /\ UNCHANGED <<uploaded_file, api_key, resume_text, context_data, questions,
                   ret, next_oid>>

----
\* The specification of the upload flow.

LoopIdle ==
    /\ loop_questions = <<>>
    /\ loop_idx = 0
    /\ total_score = 0
    /\ cards = <<>>
    /\ loop_pc = "summary"

ParseIdle ==
    /\ raw_text = <<>>
    /\ clean_text = <<>>
    /\ data_lines = <<>>
    /\ parsed = [raised |-> FALSE, questions |-> <<>>, warnings |-> 0]
    /\ parse_pc = "done"

Init == FlowInit /\ LoopIdle /\ ParseIdle

Next ==
    \/ \E f \in Files \cup {NoFile}, k \in Keys \cup {""} :
          UserInput(f, k) /\ UNCHANGED <<loop_vars, csv_vars>>
    \/ ClickRegenerate /\ UNCHANGED <<loop_vars, csv_vars>>
    \/ Gate /\ UNCHANGED <<loop_vars, csv_vars>>
    \/ Extract /\ UNCHANGED <<loop_vars, csv_vars>>
    \/ \E ok \in BOOLEAN : ChainInit(ok) /\ UNCHANGED <<loop_vars, csv_vars>>
    \/ \E resp \in P1Responses : Phase1(resp) /\ UNCHANGED <<loop_vars, csv_vars>>
    \/ \E resp \in P2Responses : Phase2(resp) /\ UNCHANGED <<loop_vars, csv_vars>>
    \/ Store /\ UNCHANGED <<loop_vars, csv_vars>>
    \/ View /\ UNCHANGED <<loop_vars, csv_vars>>

Spec == Init /\ [][Next]_vars

----
\* The question loop of the results view on its own (lines 432-438), over
\* question lists of every shape.

Difficulties ==
    {Easy, <<"E", "A", "S", "Y">>, Hard, Medium,
     <<"U", "n", "k", "n", "o", "w", "n">>}

NoLabels == Fields \ {"title", "difficulty", "scoring_criteria"}

ViewItems ==
    {Question(Fields, pts, d) : pts \in {5, 95}, d \in Difficulties}
    \cup {Question(Fields \ {"max_points"}, 0, d) : d \in Difficulties}
    \cup {Question(NoLabels, pts, <<>>) : pts \in {5, 95}}
    \cup {NonDict}

\* The results view is entered with a non-empty list only (line 408).
ViewInit ==
    /\ loop_questions \in SeqsUpTo(ViewItems, MaxListLen) \ {<<>>}
    /\ loop_idx = 0
    /\ total_score = 0
    /\ cards = <<>>
    /\ loop_pc = "loop"
    /\ FlowInit
    /\ ParseIdle

\* Lines 434-435: one pass of the loop; a card that faults ends the run.
ShowCard ==
    /\ loop_pc = "loop"
    /\ loop_idx < Len(loop_questions)
    /\ LET card == display_question(loop_questions[loop_idx + 1], loop_idx)
       IN IF card.fault
          THEN /\ loop_pc' = "fault"
               /\ UNCHANGED <<total_score, cards, loop_idx>>
          ELSE /\ total_score' = total_score + card.pts
               /\ cards' = Append(cards, card)
               /\ loop_idx' = loop_idx + 1
               /\ loop_pc' = "loop"
    /\ UNCHANGED <<loop_questions, flow_vars, csv_vars>>

\* Line 438: the summary line shows total_score.
Summary438 ==
    /\ loop_pc = "loop"
    /\ loop_idx = Len(loop_questions)
    /\ loop_pc' = "summary"
    /\ UNCHANGED <<loop_questions, loop_idx, total_score, cards, flow_vars, csv_vars>>

ViewNext == ShowCard \/ Summary438

SpecView == ViewInit /\ [][ViewNext]_vars

----
\* Properties of the upload flow (Spec).

Finished == pc = "idle" /\ run.name \in Names

C2_RegenerateStoresNew ==
    (pc = "idle" /\ run.regen) =>
        /\ run.extract_calls = 1
        /\ run.chain_runs = 1
        /\ run.stored # 0
        /\ run.stored # run.old
        /\ run.name \in DOMAIN session_state
        /\ session_state[run.name].oid = run.stored

\* C3: once phase 1 has returned None in a run, phase 2 is never invoked and
\* the coordinator has returned (None, []); phase 2 starts only after phase 1
\* returned a context.
C3_Phase1FailureSkipsPhase2 ==
    /\ run.p1 = "None" =>
          /\ run.p2_calls = 0
          /\ pc # "phase2"
          /\ ret = [set |-> TRUE, context |-> "None", questions |-> QList(<<>>)]
    /\ (pc = "phase2" \/ run.p2_calls > 0) =>
          /\ run.p1 # "notrun"
          /\ Truthy(run.p1)

C3_Witness ==
    /\ pc = "idle"
    /\ run.p1 = "None"
    /\ run.chain_runs = 1
    /\ run.stored # 0
    /\ session_state[run.name].context = "None"

\* C4: when extract_pdf_text returned the empty string in a run, the run has
\* ended with no entry under the file's key and with no chain run and no call
\* of either phase.
C4_ExtractionFailureHalts ==
    (run.extract_calls > 0 /\ resume_text = <<>>) =>
        /\ pc = "idle"
        /\ run.name \notin DOMAIN session_state
        /\ run.stored = 0
        /\ run.chain_runs = 0
        /\ run.p1 = "notrun"
        /\ run.p2_calls = 0

C4_Witness ==
    /\ run.extract_calls = 1
    /\ resume_text = <<>>
    /\ view.message = "extract_failed"
    /\ \E n \in DOMAIN session_state : n # run.name

\* C5: a returned context with a list of fewer than MAX_QUESTIONS questions
\* (none included) is stored under the file's key and the results view
\* displays it.
C5_PartialCachedAndDisplayed ==
    (/\ pc = "idle"
     /\ ret.set
     /\ Truthy(ret.context)
     /\ ret.questions.t = "list"
     /\ Len(ret.questions.items) < MAX_QUESTIONS) =>
        /\ run.stored # 0
        /\ session_state[run.name].context = ret.context
        /\ session_state[run.name].questions = ret.questions
        /\ view.shown

\* C6: a retry with another credential on a file whose stored result is failed
\* or partial leads to a new chain run, or at least leaves the regenerate
\* action on the page.
C6_RetryLeadsToNewRun ==
    (pc = "idle" /\ run.retry) => (run.chain_runs > 0 \/ view.button)

\* C7: no script run ends in an uncaught fault, whatever the AI calls return.
C7_NoUncaughtFault == run.fault = "none"

----
\* Properties of the results view (SpecView).

RECURSIVE SumPoints(_)
\* The points of a question list: max_points where the record has one, 10
\* where it has none.
SumPoints(qs) ==
    IF qs = <<>> THEN 0
    ELSE (IF "max_points" \in Head(qs).keys THEN Head(qs).max_points ELSE 10)
             + SumPoints(Tail(qs))

\* C8: the badge of every card has the DIFFICULTY_COLORS colour of its
\* lower-cased difficulty, gray when the difficulty is none of the three.
C8_BadgeColour ==
    \A i \in 1..Len(cards) :
        cards[i].color = get_difficulty_color(Get(loop_questions[i], "difficulty", Medium))

\* C9: the total of the summary line is the sum over the list of max_points,
\* 10 for a record without one; each card returned exactly that value, and the
\* total is whatever results, 100 or not.
C9_TotalIsSumOfPoints ==
    /\ \A i \in 1..Len(cards) :
          cards[i].pts = IF "max_points" \in loop_questions[i].keys
                         THEN loop_questions[i].max_points ELSE 10
    /\ loop_pc = "summary" =>
          /\ Len(cards) = Len(loop_questions)
          /\ total_score = SumPoints(loop_questions)

C9_Witness ==
    /\ loop_pc = "summary"
    /\ Len(loop_questions) = 2
    /\ "max_points" \notin loop_questions[2].keys
    /\ total_score = 105

----
\* The question-record parser (lines 104-141).

Digits == {"0", "1", "2", "3", "4", "5", "6", "7", "8", "9"}

IsDigit(c) == c \in Digits

\* \w of the fence pattern, over the characters the model's texts use.
IsWord(c) == IsDigit(c) \/ c \in {"a", "b", "c", "d", "x", "s", "v", "_"}

\* The backquote character (the module's lexer takes none inside a string).
Backquote == "BACKQUOTE"

Fence == <<Backquote, Backquote, Backquote>>

RECURSIVE DropWord(_)
DropWord(s) == IF s # <<>> /\ IsWord(Head(s)) THEN DropWord(Tail(s)) ELSE s

DropNewline(s) == IF s # <<>> /\ Head(s) = "\n" THEN Tail(s) ELSE s

RECURSIVE StripFences(_)
\* re.sub of line 112: every fence marker (three backquotes) goes, with the
\* word after it and one line break.
StripFences(s) ==
    IF Len(s) < 3 THEN s
    ELSE IF SubSeq(s, 1, 3) = Fence
         THEN StripFences(DropNewline(DropWord(SubSeq(s, 4, Len(s)))))
         ELSE <<Head(s)>> \o StripFences(Tail(s))

RECURSIVE SplitLines(_)
\* text.split('\n')
SplitLines(s) ==
    LET breaks == {i \in 1..Len(s) : s[i] = "\n"}
    IN IF breaks = {} THEN <<s>>
       ELSE LET first == CHOOSE i \in breaks : \A j \in breaks : i <= j
            IN <<SubSeq(s, 1, first - 1)>>
                   \o SplitLines(SubSeq(s, first + 1, Len(s)))

RECURSIVE JoinLines(_)
\* '\n'.join(lines)
JoinLines(lines) ==
    IF lines = <<>> THEN <<>>
    ELSE IF Len(lines) = 1 THEN lines[1]
    ELSE lines[1] \o <<"\n">> \o JoinLines(Tail(lines))

RECURSIVE SkipDigits(_)
SkipDigits(s) == IF s # <<>> /\ IsDigit(Head(s)) THEN SkipDigits(Tail(s)) ELSE s

\* re.match(r'^\d+\s*,', line)
IsDataLine(line) ==
    /\ line # <<>>
    /\ IsDigit(Head(line))
    /\ LET rest == LStrip(SkipDigits(line))
       IN rest # <<>> /\ Head(rest) = ","

RECURSIVE FilterDataLines(_)
\* Lines 115-119: the stripped lines that start with a number and a comma.
FilterDataLines(lines) ==
    IF lines = <<>> THEN <<>>
    ELSE LET line == Strip(Head(lines))
         IN (IF IsDataLine(line) THEN <<line>> ELSE <<>>)
                \o FilterDataLines(Tail(lines))

\* csv.reader (excel dialect, skipinitialspace=True, not strict): the state
\* machine of the reader.  field is the field being read, fields the record
\* being read, rows the records returned so far.
CsvStart == [state |-> "START_RECORD", field |-> <<>>, fields |-> <<>>,
             rows |-> <<>>, error |-> FALSE]

SaveField(m, state) ==
    [m EXCEPT !.fields = Append(@, m.field), !.field = <<>>, !.state = state]

AddChar(m, c, state) == [m EXCEPT !.field = Append(@, c), !.state = state]

IsEol(c) == c \in {"\n", "\r"}

\* One character of a line.
CsvChar(m, c) ==
    LET st == IF m.state = "START_RECORD" /\ ~IsEol(c) THEN "START_FIELD"
              ELSE m.state
    IN CASE m.error -> m
         [] st = "START_RECORD" -> [m EXCEPT !.state = "EAT_CRNL"]
         [] st = "START_FIELD" ->
               IF IsEol(c) THEN SaveField(m, "EAT_CRNL")
               ELSE IF c = "\"" THEN [m EXCEPT !.state = "IN_QUOTED_FIELD"]
               ELSE IF c = " " THEN [m EXCEPT !.state = "START_FIELD"]
               ELSE IF c = "," THEN SaveField(m, "START_FIELD")
               ELSE AddChar(m, c, "IN_FIELD")
         [] st = "IN_FIELD" ->
               IF IsEol(c) THEN SaveField(m, "EAT_CRNL")
               ELSE IF c = "," THEN SaveField(m, "START_FIELD")
               ELSE AddChar(m, c, "IN_FIELD")
         [] st = "IN_QUOTED_FIELD" ->
               IF c = "\"" THEN [m EXCEPT !.state = "QUOTE_IN_QUOTED_FIELD"]
               ELSE AddChar(m, c, "IN_QUOTED_FIELD")
         [] st = "QUOTE_IN_QUOTED_FIELD" ->
               IF c = "\"" THEN AddChar(m, c, "IN_QUOTED_FIELD")
               ELSE IF c = "," THEN SaveField(m, "START_FIELD")
               ELSE IF IsEol(c) THEN SaveField(m, "EAT_CRNL")
               ELSE AddChar(m, c, "IN_FIELD")
         [] st = "EAT_CRNL" ->
               IF IsEol(c) THEN m ELSE [m EXCEPT !.error = TRUE]

\* The end of a line of the input; a record that is complete is returned.
CsvEndOfLine(m) ==
    LET n == CASE m.error -> m
               [] m.state \in {"START_FIELD", "IN_FIELD", "QUOTE_IN_QUOTED_FIELD"} ->
                     SaveField(m, "START_RECORD")
               [] m.state = "EAT_CRNL" -> [m EXCEPT !.state = "START_RECORD"]
               [] OTHER -> m
    IN IF ~n.error /\ n.state = "START_RECORD"
       THEN [n EXCEPT !.rows = Append(@, n.fields), !.fields = <<>>]
       ELSE n

\* The input is exhausted inside a record: the reader returns what it has.
CsvEndOfInput(m) ==
    IF ~m.error /\ (m.field # <<>> \/ m.state = "IN_QUOTED_FIELD")
    THEN [m EXCEPT !.rows = Append(@, Append(m.fields, m.field)),
                   !.fields = <<>>, !.field = <<>>, !.state = "START_RECORD"]
    ELSE m

RECURSIVE CsvFeed(_, _, _)
\* StringIO hands the reader one line at a time, each ending with its "\n",
\* the last one without; the reader's error ends the reading.
CsvFeed(m, s, i) ==
    IF m.error THEN m
    ELSE IF i > Len(s) THEN CsvEndOfInput(CsvEndOfLine(m))
    ELSE IF s[i] = "\n"
         THEN IF i = Len(s) THEN CsvEndOfInput(CsvEndOfLine(CsvChar(m, s[i])))
              ELSE CsvFeed(CsvEndOfLine(CsvChar(m, s[i])), s, i + 1)
         ELSE CsvFeed(CsvChar(m, s[i]), s, i + 1)

\* list(csv.reader(StringIO(text), skipinitialspace=True)), or its csv.Error
CsvReader(text) == CsvFeed(CsvStart, text, 1)

DigitValue(c) ==
    CASE c = "0" -> 0 [] c = "1" -> 1 [] c = "2" -> 2 [] c = "3" -> 3
      [] c = "4" -> 4 [] c = "5" -> 5 [] c = "6" -> 6 [] c = "7" -> 7
      [] c = "8" -> 8 [] c = "9" -> 9

RECURSIVE Decimal(_, _)
Decimal(s, acc) ==
    IF s = <<>> THEN acc ELSE Decimal(Tail(s), 10 * acc + DigitValue(Head(s)))

\* int(s): ValueError (ok FALSE) unless s is an optional sign and digits.
ParseInt(s) ==
    LET t == Strip(s)
        signed == t # <<>> /\ Head(t) \in {"+", "-"}
        body == IF signed THEN Tail(t) ELSE t
    IN IF body # <<>> /\ \A i \in 1..Len(body) : IsDigit(body[i])
       THEN [ok |-> TRUE,
             value |-> IF signed /\ Head(t) = "-" THEN 0 - Decimal(body, 0)
                       ELSE Decimal(body, 0)]
       ELSE [ok |-> FALSE, value |-> 0]

RECURSIVE LStripQuotes(_)
LStripQuotes(s) == IF s # <<>> /\ Head(s) = "\"" THEN LStripQuotes(Tail(s)) ELSE s

RECURSIVE RStripQuotes(_)
RStripQuotes(s) ==
    IF s # <<>> /\ s[Len(s)] = "\"" THEN RStripQuotes(SubSeq(s, 1, Len(s) - 1)) ELSE s

\* field.strip().strip('"')
Unquote(s) == RStripQuotes(LStripQuotes(Strip(s)))

\* Lines 130-137: the record of a row of at least 6 fields.
RowRecord(row) ==
    [id |-> ParseInt(row[1]).value,
     title |-> Unquote(row[2]),
     question_text |-> Unquote(row[3]),
     difficulty |-> Unquote(row[4]),
     max_points |-> ParseInt(row[5]).value,
     scoring_criteria |-> Unquote(row[6])]

RECURSIVE BuildQuestions(_, _)
\* Lines 127-139: rows of fewer than 6 fields are passed over; a row whose id
\* or max_points is no integer is skipped with a warning.
BuildQuestions(rows, acc) ==
    IF rows = <<>> THEN acc
    ELSE LET row == Head(rows)
         IN IF Len(row) >= 6
            THEN IF ParseInt(row[1]).ok /\ ParseInt(row[5]).ok
                 THEN BuildQuestions(Tail(rows),
                          [acc EXCEPT !.questions = Append(@, RowRecord(row))])
                 ELSE BuildQuestions(Tail(rows),
                          [acc EXCEPT !.warnings = @ + 1])
            ELSE BuildQuestions(Tail(rows), acc)

NoQuestions == [raised |-> FALSE, questions |-> <<>>, warnings |-> 0]

\* Lines 124-141: read the data lines as CSV and build the records; an error
\* of the reader leaves the function as an exception.
read_rows(lines) ==
    LET reader == CsvReader(JoinLines(lines))
    IN IF reader.error
       THEN [raised |-> TRUE, questions |-> <<>>, warnings |-> 0]
       ELSE BuildQuestions(reader.rows, NoQuestions)

\* The lines the AI's text is made of: well-formed rows (plain, quoted with a
\* comma inside, padded with spaces), a narrative line, a blank line, a fence
\* marker, and malformed rows (too few fields, max_points or id no number, a
\* quote that is never closed, a carriage return inside the line).
\* 1,a,b,c,5,d
GoodRow ==
    <<"1", ",", "a", ",", "b", ",", "c", ",", "5", ",", "d">>

\* 2,"a,a",b,c,7,"d"
QuotedRow ==
    <<"2", ",", "\"", "a", ",", "a", "\"", ",", "b", ",", "c", ",", "7", ",", "\"", "d", "\"">>

\*  3 , a,b,c, 8 ,d 
SpacedRow ==
    <<" ", "3", " ", ",", " ", "a", ",", "b", ",", "c", ",", " ", "8", " ", ",", "d", " ">>

\* xx:
Narrative ==
    <<"x", "x", ":">>

\* <fence>csv
FenceLine ==
    <<Backquote, Backquote, Backquote, "c", "s", "v">>

\* 4,a,b
ShortRow ==
    <<"4", ",", "a", ",", "b">>

\* 5,a,b,c,x,d
BadPoints ==
    <<"5", ",", "a", ",", "b", ",", "c", ",", "x", ",", "d">>

\* x,a,b,c,5,d
BadId ==
    <<"x", ",", "a", ",", "b", ",", "c", ",", "5", ",", "d">>

\* 6,"a
OpenQuote ==
    <<"6", ",", "\"", "a">>

\* 7,a<CR>b,c,d,5,x
CrRow ==
    <<"7", ",", "a", "\r", "b", ",", "c", ",", "d", ",", "5", ",", "x">>

BlankLine == <<>>

InputLines == {GoodRow, QuotedRow, SpacedRow, Narrative, FenceLine, ShortRow,
               BadPoints, BadId, OpenQuote, CrRow, BlankLine}

ParseInit ==
    /\ raw_text \in {JoinLines(ls) : ls \in SeqsUpTo(InputLines, MaxLines)}
    /\ clean_text = <<>>
    /\ data_lines = <<>>
    /\ parsed = NoQuestions
    /\ parse_pc = "clean"
    /\ FlowInit
    /\ LoopIdle

\* Line 112
Clean ==
    /\ parse_pc = "clean"
    /\ clean_text' = Strip(StripFences(raw_text))
    /\ parse_pc' = "filter"
    /\ UNCHANGED <<raw_text, data_lines, parsed, flow_vars, loop_vars>>

\* Lines 115-122: no data line, no question
Filter ==
    /\ parse_pc = "filter"
    /\ data_lines' = FilterDataLines(SplitLines(clean_text))
    /\ parse_pc' = IF data_lines' = <<>> THEN "done" ELSE "read"
    /\ UNCHANGED <<raw_text, clean_text, parsed, flow_vars, loop_vars>>

\* Lines 124-141
Read ==
    /\ parse_pc = "read"
    /\ parsed' = read_rows(data_lines)
    /\ parse_pc' = "done"
    /\ UNCHANGED <<raw_text, clean_text, data_lines, flow_vars, loop_vars>>

ParseNext == Clean \/ Filter \/ Read

SpecParse == ParseInit /\ [][ParseNext]_vars

----
\* Properties of the parser (SpecParse).

\* A well-formed data row: a line that starts with a number and a comma and
\* that, read as CSV on its own, has at least 6 fields with an integer id and
\* an integer max_points.
WellFormedRow(line) ==
    /\ IsDataLine(Strip(line))
    /\ LET reader == CsvReader(Strip(line))
       IN /\ ~reader.error
          /\ Len(reader.rows) = 1
          /\ Len(reader.rows[1]) >= 6
          /\ ParseInt(reader.rows[1][1]).ok
          /\ ParseInt(reader.rows[1][5]).ok

RECURSIVE RecordsOf(_)
\* One record per well-formed row, in line order.
RecordsOf(lines) ==
    IF lines = <<>> THEN <<>>
    ELSE (IF WellFormedRow(Head(lines))
          THEN <<RowRecord(CsvReader(Strip(Head(lines))).rows[1])>>
          ELSE <<>>) \o RecordsOf(Tail(lines))

\* C10: the parser never raises and returns exactly the records of the
\* well-formed rows of its input, in input order, every other line dropped.
C10_OneRecordPerWellFormedRow ==
    parse_pc = "done" =>
        /\ ~parsed.raised
        /\ parsed.questions = RecordsOf(SplitLines(raw_text))

====
